---- MODULE Spec2Model ----
(***************************************************************************)
(* State-machine model of the JAMAi assignment organizer:                  *)
(*   src/organizer.py  the entities (Assignment, ScheduledAssignment,      *)
(*                     TimeSlot, UserPreferences)                          *)
(*   src/gemini.py     schedule_assignments (the request to the external   *)
(*                     language model) and create_scheduled_assignments    *)
(*   src/gui.py        MainWindow, the handlers that own the lists         *)
(*                                                                         *)
(* Time is counted in minutes on one axis: datetimes are minutes since an  *)
(* arbitrary origin, timedeltas are minutes.  A session's assigned_date    *)
(* also carries its tzinfo ("none" for a naive datetime, "utc").           *)
(***************************************************************************)
EXTENDS Integers, Sequences, FiniteSets, TLC

VARIABLES
    assignments,            \* MainWindow.assignments: list of Assignment objects
    time_slots,             \* MainWindow.time_slots: list of TimeSlot objects
    scheduled_assignments,  \* MainWindow.scheduled_assignments: list of sessions
    preferences,            \* MainWindow.preferences
    listOpen,               \* an AssignmentListDialog is on screen (modal)
    listItems,              \* the Assignment objects its Edit buttons captured
    lastOp,                 \* how schedule_assignments ended, if it ran last
    messageBox,             \* title of the QMessageBox the last handler showed
    unscheduled,            \* the names listed in that box, when it lists names
    data_file               \* jamaai_data.json: <<>> (no file) or <<its content>>

vars == <<assignments, time_slots, scheduled_assignments, preferences,
          listOpen, listItems, lastOp, messageBox, unscheduled, data_file>>

----------------------------------------------------------------------------
(* Bounds and input samples *)

MaxAssignments == 2
MaxSlots == 1
MaxSessions == 2

Names == {"a", "b"}

\* What the user can type into AssignmentDialog (name, due date, effort).
AssignmentInputs ==
    { [name |-> "a", due_date |-> 1440, expected_completion_time |-> 20],
      [name |-> "b", due_date |-> 2880, expected_completion_time |-> 60] }

\* What the user can type into TimeSlotDialog (start, duration).
TimeSlotInputs ==
    { [start |-> 0, duration |-> 60] }

\* What the user can type into PreferencesDialog.
PreferenceInputs ==
    { [min_study_length |-> 30, max_study_length |-> 120,
       min_break_length |-> 5, max_break_length |-> 15],
      [min_study_length |-> 60, max_study_length |-> 60,
       min_break_length |-> 15, max_break_length |-> 15] }

\* What one session of the language model's answer can say
\* (start_time, duration, session_number).  start_time is an ISO 8601 string:
\* the minutes it denotes and its suffix ("" or "Z").
SessionInputs ==
    { [start_time |-> [t |-> 0,  suffix |-> ""],  duration |-> 60, session_number |-> 1],
      [start_time |-> [t |-> 0,  suffix |-> ""],  duration |-> 30, session_number |-> 1],
      [start_time |-> [t |-> 30, suffix |-> ""],  duration |-> 30, session_number |-> 2],
      [start_time |-> [t |-> 30, suffix |-> ""],  duration |-> 60, session_number |-> 2] }

\* A session whose start_time is written in UTC ("...Z").
ZuluSessionInputs ==
    { [start_time |-> [t |-> 30, suffix |-> "Z"], duration |-> 30, session_number |-> 1] }

----------------------------------------------------------------------------
(* Helpers *)

Range(s) == { s[i] : i \in DOMAIN s }

RECURSIVE SumSeq(_)
SumSeq(s) == IF s = <<>> THEN 0 ELSE Head(s) + SumSeq(Tail(s))

RECURSIVE Flatten(_)
Flatten(ss) == IF ss = <<>> THEN <<>> ELSE Head(ss) \o Flatten(Tail(ss))

\* Object identity (Python's "is") is the id field. Ids are only ever compared:
\* a newly constructed object gets one that no live object has, and while no
\* dialog holds references the objects of a list are numbered by position.
FreshId(used) == CHOOSE i \in 1..(Cardinality(used) + 1) : i \notin used

Renumbered(objs) == [i \in DOMAIN objs |-> [objs[i] EXCEPT !.id = i]]

LiveAssignmentIds ==
    { a.id : a \in Range(assignments) \cup Range(listItems) }

\* Assignment(name, due_date, expected_completion_time)
Assignment(in, id) ==
    [id |-> id, name |-> in.name, due_date |-> in.due_date,
     expected_completion_time |-> in.expected_completion_time]

\* TimeSlot(start, duration): self.id = uuid.uuid4()
TimeSlot(in, id) ==
    [id |-> id, start |-> in.start, duration |-> in.duration]

\* datetime.isoformat(): an aware datetime is written with its UTC offset
isoformat(dt) ==
    [t |-> dt.t, suffix |-> IF dt.tzinfo = "none" THEN "" ELSE "+00:00"]

\* datetime.fromisoformat(): a string with an offset gives an aware datetime
fromisoformat(str) ==
    [t |-> str.t, tzinfo |-> IF str.suffix = "" THEN "none" ELSE "utc"]

\* dt.replace(tzinfo=None): the wall-clock fields stay as they are
ensure_naive_datetime(dt) == [dt EXCEPT !.tzinfo = "none"]

\* timedelta.total_seconds() and timedelta(seconds=...)
total_seconds(td) == td * 60

timedelta(seconds) == seconds \div 60

\* Assignment.due_date and TimeSlot.start come from QDateTime.toPython():
\* naive datetimes, kept in the model as their minutes alone.
NaiveDatetime(minutes) == [t |-> minutes, tzinfo |-> "none"]

----------------------------------------------------------------------------
(* gemini.py *)

\* One item of newly_scheduled_assignments with exactly k sessions.
ItemsWith(k) == [assignment_name : Names, sessions : [1..k -> SessionInputs]]

\* The answers model.generate_content can give: RESPONSE_SCHEMA fixes the
\* shape (items with a name and a list of sessions) and nothing else; the
\* prompt's rules are requests, not checks.  ResponsesWithin(n, budget) are
\* the answers of at most n items and at most budget sessions in all.
RECURSIVE ResponsesWithin(_, _)
ResponsesWithin(n, budget) ==
    IF n = 0 THEN { <<>> }
    ELSE { <<>> } \cup
         UNION { { <<item>> \o rest : item \in ItemsWith(k),
                                      rest \in ResponsesWithin(n - 1, budget - k) } :
                 k \in 0..budget }

\* The answers of one item with one session that is written in UTC.
ZuluResponses ==
    { << [assignment_name |-> n, sessions |-> <<session>>] >> :
        n \in Names, session \in ZuluSessionInputs }

Responses == ResponsesWithin(MaxSessions, MaxSessions) \cup ZuluResponses

\* assignment_dict = {a.name: a for a in assignments}: the last one wins
AssignmentDict(alist, n) ==
    LET idx == { i \in DOMAIN alist : alist[i].name = n }
    IN  alist[CHOOSE i \in idx : \A j \in idx : j <= i]

\* start_time = session['start_time']: a trailing 'Z' is cut off and the
\* parsed datetime gets tzinfo=timezone.utc; otherwise datetime.fromisoformat
ParseStartTime(start_time) ==
    IF start_time.suffix = "Z"
    THEN [fromisoformat([start_time EXCEPT !.suffix = ""]) EXCEPT !.tzinfo = "utc"]
    ELSE fromisoformat(start_time)

\* the session_number of the answer ignored: every session gets the default 1
ScheduledAssignment_DefaultNumber(original, session) ==
    [name |-> original.name,
     due_date |-> original.due_date,
     expected_completion_time |-> original.expected_completion_time,
     assigned_date |-> ParseStartTime(session.start_time),
     session_duration |-> session.duration,
     session_number |-> 1]

\* ScheduledAssignment(...) plus the session_duration / session_number attributes
ScheduledAssignment(original, session) ==
    [name |-> original.name,
     due_date |-> original.due_date,
     expected_completion_time |-> original.expected_completion_time,
     assigned_date |-> ParseStartTime(session.start_time),
     session_duration |-> session.duration,
     session_number |-> session.session_number]

create_scheduled_assignments(response, alist) ==
    LET known(item) == \E i \in DOMAIN alist : alist[i].name = item.assignment_name
        one(item) ==
            IF ~known(item) THEN <<>>
            ELSE [k \in DOMAIN item.sessions |->
                    ScheduledAssignment(AssignmentDict(alist, item.assignment_name),
                                        item.sessions[k])]
    IN  Flatten([i \in DOMAIN response |-> one(response[i])])

----------------------------------------------------------------------------
(* gui.py: CalendarView *)

\* the loop at the head of display_scheduled_assignments left out
display_scheduled_assignments_AsGiven(sas) == sas

\* display_scheduled_assignments: every session of the list that has an aware
\* assigned_date gets it overwritten by the naive one, in place; what is then
\* drawn is not part of the state.  Sessions enter MainWindow's list through
\* schedule_assignments and load_data only, and both leave them naive: the
\* update_display() of the other handlers finds nothing to overwrite.
display_scheduled_assignments(sas) ==
    [i \in DOMAIN sas |->
        [sas[i] EXCEPT !.assigned_date = ensure_naive_datetime(@)]]

----------------------------------------------------------------------------
(* gui.py: MainWindow, saving and loading *)

serialize_assignment(assignment) ==
    [name |-> assignment.name,
     due_date |-> isoformat(NaiveDatetime(assignment.due_date)),
     expected_completion_time |-> total_seconds(assignment.expected_completion_time)]

deserialize_assignment(data, id) ==
    [id |-> id,
     name |-> data.name,
     due_date |-> ensure_naive_datetime(fromisoformat(data.due_date)).t,
     expected_completion_time |-> timedelta(data.expected_completion_time)]

\* str(time_slot.id) and uuid.UUID(data["id"])
UuidStr(id) == [hex |-> id]

UuidOf(str) == str.hex

serialize_time_slot(time_slot) ==
    [start |-> isoformat(NaiveDatetime(time_slot.start)),
     duration |-> total_seconds(time_slot.duration),
     id |-> UuidStr(time_slot.id)]

\* the saved id not put back: the slot keeps the id TimeSlot() generated
deserialize_time_slot_AutoId(data, auto) ==
    [id |-> auto,
     start |-> ensure_naive_datetime(fromisoformat(data.start)).t,
     duration |-> timedelta(data.duration)]

\* deserialize_time_slot: TimeSlot(...) generates an id (auto), then
\* slot.id = uuid.UUID(data["id"]); save_data always writes a valid "id"
deserialize_time_slot(data, auto) ==
    [id |-> UuidOf(data.id),
     start |-> ensure_naive_datetime(fromisoformat(data.start)).t,
     duration |-> timedelta(data.duration)]

serialize_scheduled_assignment(sa) ==
    [name |-> sa.name,
     due_date |-> isoformat(NaiveDatetime(sa.due_date)),
     expected_completion_time |-> total_seconds(sa.expected_completion_time),
     assigned_date |-> isoformat(sa.assigned_date),
     session_duration |-> total_seconds(sa.session_duration),
     session_number |-> sa.session_number]

deserialize_scheduled_assignment(data) ==
    [name |-> data.name,
     due_date |-> ensure_naive_datetime(fromisoformat(data.due_date)).t,
     expected_completion_time |-> timedelta(data.expected_completion_time),
     assigned_date |-> ensure_naive_datetime(fromisoformat(data.assigned_date)),
     session_duration |-> timedelta(data.session_duration),
     session_number |-> data.session_number]

serialize_preferences(p) ==
    [min_study_length |-> total_seconds(p.min_study_length),
     max_study_length |-> total_seconds(p.max_study_length),
     min_break_length |-> total_seconds(p.min_break_length),
     max_break_length |-> total_seconds(p.max_break_length)]

deserialize_preferences(data) ==
    [min_study_length |-> timedelta(data.min_study_length),
     max_study_length |-> timedelta(data.max_study_length),
     min_break_length |-> timedelta(data.min_break_length),
     max_break_length |-> timedelta(data.max_break_length)]

\* save_data: what json.dump writes to self.data_file
save_data(alist, slots, sas, p) ==
    << [assignments |-> [i \in DOMAIN alist |-> serialize_assignment(alist[i])],
        time_slots |-> [i \in DOMAIN slots |-> serialize_time_slot(slots[i])],
        scheduled_assignments |->
            [i \in DOMAIN sas |-> serialize_scheduled_assignment(sas[i])],
        preferences |-> serialize_preferences(p)] >>

----------------------------------------------------------------------------
(* gui.py: MainWindow *)

Init ==
    /\ assignments = <<>>
    /\ time_slots = <<>>
    /\ scheduled_assignments = <<>>
    /\ preferences = [min_study_length |-> 30, max_study_length |-> 120,
                      min_break_length |-> 5, max_break_length |-> 15]
    /\ listOpen = FALSE
    /\ listItems = <<>>
    /\ lastOp = ""
    /\ messageBox = ""
    /\ unscheduled = <<>>
    /\ data_file = <<>>

\* add_assignment, the dialog accepted with one of the given inputs
add_assignment_of(inputs) ==
    /\ ~listOpen
    /\ Len(assignments) < MaxAssignments
    /\ \E in \in inputs :
         assignments' = Append(assignments, Assignment(in, FreshId(LiveAssignmentIds)))
    /\ lastOp' = ""
    /\ messageBox' = ""
    /\ unscheduled' = <<>>
    /\ UNCHANGED <<time_slots, scheduled_assignments, preferences, listOpen, listItems>>
    /\ data_file' = save_data(assignments', time_slots', scheduled_assignments',
                              preferences')

add_assignment == add_assignment_of(AssignmentInputs)

\* uuid.uuid4(): any value of the space that no time slot of the list has
Uuid4(space) == space \ { ts.id : ts \in Range(time_slots) }

\* add_time_slot, the dialog accepted; at most max slots are kept
add_time_slot_of(space, max) ==
    /\ ~listOpen
    /\ Len(time_slots) < max
    /\ \E in \in TimeSlotInputs, id \in Uuid4(space) :
         time_slots' = Append(time_slots, TimeSlot(in, id))
    /\ lastOp' = ""
    /\ messageBox' = ""
    /\ unscheduled' = <<>>
    /\ UNCHANGED <<assignments, scheduled_assignments, preferences, listOpen, listItems>>
    /\ data_file' = save_data(assignments', time_slots', scheduled_assignments',
                              preferences')

add_time_slot == add_time_slot_of(1..MaxSlots, MaxSlots)

\* sorted(self.assignments, key=lambda a: a.due_date): stable
RECURSIVE SortedByDueDate(_)
SortedByDueDate(alist) ==
    IF alist = <<>> THEN <<>>
    ELSE LET m == CHOOSE i \in DOMAIN alist :
                    /\ \A j \in DOMAIN alist : alist[i].due_date <= alist[j].due_date
                    /\ \A j \in 1..(i-1) : alist[j].due_date > alist[i].due_date
         IN  <<alist[m]>> \o
             SortedByDueDate([k \in 1..(Len(alist)-1) |->
                                 IF k < m THEN alist[k] ELSE alist[k+1]])

\* view_assignments up to dialog.exec_(): AssignmentListDialog.setup_ui binds
\* one Edit button to each Assignment object of the list as it is now.
view_assignments ==
    /\ ~listOpen
    /\ listOpen' = TRUE
    /\ listItems' = SortedByDueDate(assignments)
    /\ lastOp' = ""
    /\ messageBox' = ""
    /\ unscheduled' = <<>>
    /\ UNCHANGED <<assignments, time_slots, scheduled_assignments, preferences,
                   data_file>>

\* the Close button; view_assignments returns
close_assignment_list ==
    /\ listOpen
    /\ listOpen' = FALSE
    /\ listItems' = <<>>
    /\ assignments' = Renumbered(assignments)
    /\ lastOp' = ""
    /\ messageBox' = ""
    /\ unscheduled' = <<>>
    /\ UNCHANGED <<time_slots, scheduled_assignments, preferences, data_file>>

is_scheduled(assignment) ==
    \E i \in DOMAIN scheduled_assignments :
        scheduled_assignments[i].name = assignment.name

\* the fields of the found object overwritten instead: it keeps its identity
ReplaceAssignment_InPlace(alist, assignment, updated) ==
    [i \in DOMAIN alist |->
        IF /\ alist[i].id = assignment.id
           /\ \A j \in 1..(i-1) : alist[j].id # assignment.id
        THEN [updated EXCEPT !.id = assignment.id] ELSE alist[i]]

\* for i, a in enumerate(self.assignments): if a is assignment: replace; break
ReplaceAssignment(alist, assignment, updated) ==
    [i \in DOMAIN alist |->
        IF /\ alist[i].id = assignment.id
           /\ \A j \in 1..(i-1) : alist[j].id # assignment.id
        THEN updated ELSE alist[i]]

\* for sa in self.scheduled_assignments: if sa.name == original_name: ...
RenameSessions(sas, original_name, updated) ==
    [i \in DOMAIN sas |->
        IF sas[i].name = original_name
        THEN [sas[i] EXCEPT !.name = updated.name,
                            !.due_date = updated.due_date,
                            !.expected_completion_time = updated.expected_completion_time]
        ELSE sas[i]]

\* edit_assignment(assignment), the user going through with it: Yes to the
\* "Assignment Scheduled" warning when it is shown, then Save in the dialog.
\* the Edit button of row k of the open list, the dialog saved with input in
edit_assignment_on(k, in) ==
    /\ listOpen
    /\ k \in DOMAIN listItems
    /\ LET assignment == listItems[k]
           updated == Assignment(in, FreshId(LiveAssignmentIds))
       IN  /\ assignments' = ReplaceAssignment(assignments, assignment, updated)
           /\ scheduled_assignments' =
                  IF is_scheduled(assignment)
                  THEN RenameSessions(scheduled_assignments, assignment.name, updated)
                  ELSE scheduled_assignments
           /\ messageBox' = IF is_scheduled(assignment)
                            THEN "Assignment Scheduled" ELSE ""
    /\ lastOp' = ""
    /\ unscheduled' = <<>>
    /\ UNCHANGED <<time_slots, preferences, listOpen, listItems>>
    /\ data_file' = save_data(assignments', time_slots', scheduled_assignments',
                              preferences')

edit_assignment ==
    \E k \in DOMAIN listItems, in \in AssignmentInputs : edit_assignment_on(k, in)

\* delete_assignment(assignment), assignment being entry k of the list
delete_assignment_on(k) ==
    /\ ~listOpen
    /\ k \in DOMAIN assignments
    /\ LET assignment == assignments[k]
       IN  /\ assignments' = Renumbered(SelectSeq(assignments,
                                                LAMBDA a : a.id # assignment.id))
           /\ scheduled_assignments' =
                  SelectSeq(scheduled_assignments, LAMBDA sa : sa.name # assignment.name)
    /\ lastOp' = ""
    /\ messageBox' = ""
    /\ unscheduled' = <<>>
    /\ UNCHANGED <<time_slots, preferences, listOpen, listItems>>
    /\ data_file' = save_data(assignments', time_slots', scheduled_assignments',
                              preferences')

delete_assignment == \E k \in DOMAIN assignments : delete_assignment_on(k)

\* edit_preferences, the dialog accepted with one of the given inputs
edit_preferences_of(inputs) ==
    /\ ~listOpen
    /\ \E in \in inputs : preferences' = in
    /\ lastOp' = ""
    /\ messageBox' = ""
    /\ unscheduled' = <<>>
    /\ UNCHANGED <<assignments, time_slots, scheduled_assignments, listOpen, listItems>>
    /\ data_file' = save_data(assignments', time_slots', scheduled_assignments',
                              preferences')

edit_preferences == edit_preferences_of(PreferenceInputs)

\* schedule_assignments: if not self.assignments: warning; return
schedule_no_assignments ==
    /\ ~listOpen
    /\ assignments = <<>>
    /\ lastOp' = "schedule_assignments:no_assignments"
    /\ messageBox' = "No Assignments"
    /\ unscheduled' = <<>>
    /\ UNCHANGED <<assignments, time_slots, scheduled_assignments, preferences,
                   listOpen, listItems, data_file>>

\* the same return, with every assignment named as unscheduled
schedule_no_time_slots_Reporting ==
    /\ ~listOpen
    /\ assignments # <<>>
    /\ time_slots = <<>>
    /\ lastOp' = "schedule_assignments:no_time_slots"
    /\ messageBox' = "No Time Slots"
    /\ unscheduled' = [i \in DOMAIN assignments |-> assignments[i].name]
    /\ UNCHANGED <<assignments, time_slots, scheduled_assignments, preferences,
                   listOpen, listItems, data_file>>

\* schedule_assignments: if not self.time_slots: warning; return
schedule_no_time_slots ==
    /\ ~listOpen
    /\ assignments # <<>>
    /\ time_slots = <<>>
    /\ lastOp' = "schedule_assignments:no_time_slots"
    /\ messageBox' = "No Time Slots"
    /\ unscheduled' = <<>>
    /\ UNCHANGED <<assignments, time_slots, scheduled_assignments, preferences,
                   listOpen, listItems, data_file>>

\* scheduled_assignment_names = set(sa.name for sa in self.scheduled_assignments)
ScheduledNames(sas) == { sas[i].name : i \in DOMAIN sas }

\* the comparison off by one
NotAllScheduled_OffByOne(alist, sas) == Cardinality(ScheduledNames(sas)) + 1 < Len(alist)

\* if len(scheduled_assignment_names) < len(self.assignments)
NotAllScheduled(alist, sas) == Cardinality(ScheduledNames(sas)) < Len(alist)

\* [a.name for a in self.assignments if a.name not in scheduled_assignment_names]
UnscheduledNames(alist, sas) ==
    LET kept == SelectSeq(alist, LAMBDA a : a.name \notin ScheduledNames(sas))
    IN  [i \in DOMAIN kept |-> kept[i].name]

\* schedule_assignments, the try block running to its end on one of the
\* given answers: the sessions are created, the warning is shown,
\* update_display() draws them and save_data() writes them
schedule_assignments_of(responses) ==
    /\ ~listOpen
    /\ assignments # <<>>
    /\ time_slots # <<>>
    /\ \E result \in responses :
         LET sas == create_scheduled_assignments(result, assignments)
         IN  /\ scheduled_assignments' = display_scheduled_assignments(sas)
             /\ messageBox' = IF NotAllScheduled(assignments, sas)
                              THEN "Not All Assignments Scheduled" ELSE ""
             /\ unscheduled' = IF NotAllScheduled(assignments, sas)
                               THEN UnscheduledNames(assignments, sas) ELSE <<>>
    /\ lastOp' = "schedule_assignments:ok"
    /\ UNCHANGED <<assignments, time_slots, preferences, listOpen, listItems>>
    /\ data_file' = save_data(assignments', time_slots', scheduled_assignments',
                              preferences')

schedule_assignments == schedule_assignments_of(Responses)

\* the except branch reached after the session list was already emptied
schedule_failed_Partial ==
    /\ ~listOpen
    /\ assignments # <<>>
    /\ time_slots # <<>>
    /\ lastOp' = "schedule_assignments:error"
    /\ messageBox' = "Error"
    /\ unscheduled' = <<>>
    /\ scheduled_assignments' = <<>>
    /\ UNCHANGED <<assignments, time_slots, preferences, listOpen, listItems,
                   data_file>>

\* schedule_assignments, the except branch: the request or the parsing raised
\* (schedule_assignments or create_scheduled_assignments of gemini.py), which
\* is before self.scheduled_assignments is assigned
schedule_failed ==
    /\ ~listOpen
    /\ assignments # <<>>
    /\ time_slots # <<>>
    /\ lastOp' = "schedule_assignments:error"
    /\ messageBox' = "Error"
    /\ unscheduled' = <<>>
    /\ UNCHANGED <<assignments, time_slots, scheduled_assignments, preferences,
                   listOpen, listItems, data_file>>

\* clear_assignments, confirmed
clear_assignments ==
    /\ ~listOpen
    /\ assignments # <<>> \/ scheduled_assignments # <<>>
    /\ assignments' = <<>>
    /\ scheduled_assignments' = <<>>
    /\ lastOp' = ""
    /\ messageBox' = "Confirm Clear"
    /\ unscheduled' = <<>>
    /\ UNCHANGED <<time_slots, preferences, listOpen, listItems>>
    /\ data_file' = save_data(assignments', time_slots', scheduled_assignments',
                              preferences')

\* reset_schedule, confirmed, taking the assignments along with the schedule
reset_schedule_Everything ==
    /\ ~listOpen
    /\ scheduled_assignments # <<>>
    /\ scheduled_assignments' = <<>>
    /\ assignments' = <<>>
    /\ lastOp' = ""
    /\ messageBox' = "Confirm Reset"
    /\ unscheduled' = <<>>
    /\ UNCHANGED <<time_slots, preferences, listOpen, listItems>>
    /\ data_file' = save_data(assignments', time_slots', scheduled_assignments',
                              preferences')

\* reset_schedule, confirmed
reset_schedule ==
    /\ ~listOpen
    /\ scheduled_assignments # <<>>
    /\ scheduled_assignments' = <<>>
    /\ lastOp' = ""
    /\ messageBox' = "Confirm Reset"
    /\ unscheduled' = <<>>
    /\ UNCHANGED <<assignments, time_slots, preferences, listOpen, listItems>>
    /\ data_file' = save_data(assignments', time_slots', scheduled_assignments',
                              preferences')

\* reset_schedule, No to "Confirm Reset"
reset_schedule_declined ==
    /\ ~listOpen
    /\ scheduled_assignments # <<>>
    /\ lastOp' = ""
    /\ messageBox' = "Confirm Reset"
    /\ unscheduled' = <<>>
    /\ UNCHANGED <<assignments, time_slots, scheduled_assignments, preferences,
                   listOpen, listItems, data_file>>

\* reset_schedule: if not self.scheduled_assignments: return
reset_schedule_nothing ==
    /\ ~listOpen
    /\ scheduled_assignments = <<>>
    /\ lastOp' = ""
    /\ messageBox' = ""
    /\ unscheduled' = <<>>
    /\ UNCHANGED <<assignments, time_slots, scheduled_assignments, preferences,
                   listOpen, listItems, data_file>>

\* clear_time_slots, confirmed (after Yes to "Assignments Scheduled" when
\* there are sessions)
clear_time_slots ==
    /\ ~listOpen
    /\ time_slots # <<>>
    /\ time_slots' = <<>>
    /\ scheduled_assignments' = <<>>
    /\ lastOp' = ""
    /\ messageBox' = "Confirm Clear"
    /\ unscheduled' = <<>>
    /\ UNCHANGED <<assignments, preferences, listOpen, listItems>>
    /\ data_file' = save_data(assignments', time_slots', scheduled_assignments',
                              preferences')

\* clear_time_slots with sessions: Yes to "Assignments Scheduled", which
\* empties scheduled_assignments at once, then No to "Confirm Clear"
clear_time_slots_declined ==
    /\ ~listOpen
    /\ time_slots # <<>>
    /\ scheduled_assignments # <<>>
    /\ scheduled_assignments' = <<>>
    /\ lastOp' = ""
    /\ messageBox' = "Confirm Clear"
    /\ unscheduled' = <<>>
    /\ UNCHANGED <<assignments, time_slots, preferences, listOpen, listItems,
                   data_file>>

\* "Delete Time Slot" in the context menu of slot k: on_delete_slot is
\* MainWindow.delete_assignment, called with the TimeSlot.  "a is not
\* assignment" keeps every assignment, then time_slot.name raises
\* AttributeError, in the session filter or in the status message: nothing is
\* assigned, drawn or saved.  (TimeSlotItem.delete_slot, the slot's delete
\* button, ends in the same call.)
on_delete_slot(k) ==
    /\ ~listOpen
    /\ k \in DOMAIN time_slots
    /\ messageBox' = ""
    /\ lastOp' = ""
    /\ unscheduled' = <<>>
    /\ UNCHANGED <<assignments, time_slots, scheduled_assignments, preferences,
                   listOpen, listItems, data_file>>

delete_time_slot == \E k \in DOMAIN time_slots : on_delete_slot(k)

\* MainWindow.__init__: self.preferences = UserPreferences(30 min, 2 h, 5 min, 15 min)
DefaultPreferences ==
    [min_study_length |-> 30, max_study_length |-> 120,
     min_break_length |-> 5, max_break_length |-> 15]

\* datetime.fromisoformat raises ValueError on a string that is not ISO 8601
IsIsoformat(str) == str.suffix \in {"", "+00:00"}

\* load_data in MainWindow.__init__, the file being there and json.load
\* reading it; autos are the ids TimeSlot() generates while loading, and the
\* new objects are numbered by position.  The four attributes are assigned one
\* after the other inside one try: when an entry of a list cannot be
\* deserialized, the except branch is entered with the lists before it
\* assigned and the rest as __init__ set it.
load_data(file, autos) ==
    LET assignments_ok ==
            \A i \in DOMAIN file.assignments : IsIsoformat(file.assignments[i].due_date)
        time_slots_ok ==
            /\ assignments_ok
            /\ \A i \in DOMAIN file.time_slots : IsIsoformat(file.time_slots[i].start)
        scheduled_ok ==
            /\ time_slots_ok
            /\ \A i \in DOMAIN file.scheduled_assignments :
                  /\ IsIsoformat(file.scheduled_assignments[i].due_date)
                  /\ IsIsoformat(file.scheduled_assignments[i].assigned_date)
    IN  /\ assignments' =
               IF assignments_ok
               THEN [i \in DOMAIN file.assignments |->
                        deserialize_assignment(file.assignments[i], i)]
               ELSE <<>>
        /\ time_slots' =
               IF time_slots_ok
               THEN [i \in DOMAIN file.time_slots |->
                        deserialize_time_slot(file.time_slots[i], autos[i])]
               ELSE <<>>
        /\ scheduled_assignments' =
               IF scheduled_ok
               THEN display_scheduled_assignments(
                        [i \in DOMAIN file.scheduled_assignments |->
                            deserialize_scheduled_assignment(
                                file.scheduled_assignments[i])])
               ELSE <<>>
        /\ preferences' =
               IF scheduled_ok THEN deserialize_preferences(file.preferences)
               ELSE DefaultPreferences
        /\ lastOp' = IF scheduled_ok THEN "" ELSE "load_data:error"

\* The window is closed (closeEvent: save_data) and the program is started
\* again (MainWindow.__init__: load_data), uuids drawn from the given space.
restart_of(space) ==
    /\ ~listOpen
    /\ data_file' = save_data(assignments, time_slots, scheduled_assignments,
                              preferences)
    /\ \E autos \in [DOMAIN time_slots -> space] : load_data(data_file'[1], autos)
    /\ messageBox' = ""
    /\ unscheduled' = <<>>
    /\ UNCHANGED <<listOpen, listItems>>

restart == restart_of(1..MaxSlots)

\* The files that differ from the given one in one date string, which is
\* not ISO 8601 any more (the file is plain JSON that other programs and the
\* user can write).
Damaged(file) ==
    { [file EXCEPT !.assignments[i].due_date.suffix = "?"] :
        i \in DOMAIN file.assignments }
    \cup { [file EXCEPT !.time_slots[i].start.suffix = "?"] :
             i \in DOMAIN file.time_slots }
    \cup { [file EXCEPT !.scheduled_assignments[i].assigned_date.suffix = "?"] :
             i \in DOMAIN file.scheduled_assignments }

\* The window is closed, the file is damaged, the program is started again.
restart_damaged ==
    /\ ~listOpen
    /\ \E file \in Damaged(save_data(assignments, time_slots, scheduled_assignments,
                                      preferences)[1]) :
         /\ data_file' = <<file>>
         /\ \E autos \in [DOMAIN time_slots -> 1..MaxSlots] : load_data(file, autos)
    /\ messageBox' = ""
    /\ unscheduled' = <<>>
    /\ UNCHANGED <<listOpen, listItems>>

Next ==
    \/ add_assignment
    \/ add_time_slot
    \/ view_assignments
    \/ close_assignment_list
    \/ edit_assignment
    \/ delete_assignment
    \/ edit_preferences
    \/ schedule_no_assignments
    \/ schedule_no_time_slots
    \/ schedule_assignments
    \/ schedule_failed
    \/ clear_assignments
    \/ reset_schedule
    \/ reset_schedule_declined
    \/ reset_schedule_nothing
    \/ clear_time_slots
    \/ clear_time_slots_declined
    \/ delete_time_slot
    \/ restart

Spec == Init /\ [][Next]_vars

----------------------------------------------------------------------------
(* The dialogs' full input ranges.  AssignmentDialog's spin boxes go from 0 *)
(* hours 0 minutes upwards and PreferencesDialog's four lengths are free of *)
(* each other; get_assignment and get_preferences return what was typed.    *)

DialogAssignmentInputs ==
    AssignmentInputs \cup
    { [name |-> "a", due_date |-> 1440, expected_completion_time |-> 0] }

DialogPreferenceInputs ==
    PreferenceInputs \cup
    { [min_study_length |-> 0, max_study_length |-> 0,
       min_break_length |-> 0, max_break_length |-> 0],
      [min_study_length |-> 120, max_study_length |-> 60,
       min_break_length |-> 5, max_break_length |-> 15] }

add_assignment_dialog == add_assignment_of(DialogAssignmentInputs)

edit_preferences_dialog == edit_preferences_of(DialogPreferenceInputs)

\* the answers of at most one item with at most one session
schedule_assignments_short == schedule_assignments_of(ResponsesWithin(1, 1))

NextDialogs ==
    \/ add_assignment_dialog
    \/ add_time_slot
    \/ edit_preferences_dialog
    \/ schedule_assignments_short
    \/ clear_assignments

SpecDialogs == Init /\ [][NextDialogs]_vars

----------------------------------------------------------------------------
(* Several time slots, their uuids drawn from a space larger than the list. *)

MaxStoredSlots == MaxSlots + 1

UuidSpace == 1..(MaxSlots + 2)

add_time_slot_uuid == add_time_slot_of(UuidSpace, MaxStoredSlots)

restart_uuid == restart_of(UuidSpace)

NextSlots ==
    \/ add_time_slot_uuid
    \/ restart_uuid
    \/ clear_time_slots
    \/ add_assignment
    \/ edit_preferences

SpecSlots == Init /\ [][NextSlots]_vars

----------------------------------------------------------------------------
(* Starting on a data file that was damaged since it was written. *)

NextLoad ==
    \/ add_assignment
    \/ add_time_slot
    \/ edit_preferences
    \/ schedule_assignments_short
    \/ restart
    \/ restart_damaged

SpecLoad == Init /\ [][NextLoad]_vars

----------------------------------------------------------------------------
(* The result of a scheduling call.  After schedule_assignments has run to   *)
(* the end of its try block, scheduled_assignments is the result of the call *)
(* and assignments, time_slots and preferences are still its inputs.         *)

Planned == lastOp = "schedule_assignments:ok"

SessionStart(sa) == sa.assigned_date.t
SessionEnd(sa) == sa.assigned_date.t + sa.session_duration

InWindow(sa, w) ==
    /\ w.start <= SessionStart(sa)
    /\ SessionEnd(sa) <= w.start + w.duration

SessionsOf(n) == SelectSeq(scheduled_assignments, LAMBDA sa : sa.name = n)

\* minutes of sessions placed for the name n
Covered(n) ==
    SumSeq([i \in DOMAIN SessionsOf(n) |-> SessionsOf(n)[i].session_duration])

\* what a full schedule of assignment a has to add up to
Needed(a) ==
    IF a.expected_completion_time < preferences.min_study_length
    THEN preferences.min_study_length
    ELSE a.expected_completion_time

Capacity == SumSeq([i \in DOMAIN time_slots |-> time_slots[i].duration])

\* C1: in the result of a scheduling call, two sessions placed in the same
\* time window never intersect and are at least min_break apart.
C1_NoOverlap ==
    Planned =>
        \A w \in Range(time_slots) :
            \A i, j \in DOMAIN scheduled_assignments :
                LET s == scheduled_assignments[i]
                    t == scheduled_assignments[j]
                IN  (i # j /\ InWindow(s, w) /\ InWindow(t, w)) =>
                        \/ SessionEnd(s) + preferences.min_break_length <= SessionStart(t)
                        \/ SessionEnd(t) + preferences.min_break_length <= SessionStart(s)

\* C2: every session of the result of a scheduling call lies fully inside
\* one of the input time windows.
C2_Containment ==
    Planned =>
        \A i \in DOMAIN scheduled_assignments :
            \E w \in Range(time_slots) : InWindow(scheduled_assignments[i], w)

\* C3: every session of the result of a scheduling call has a length between
\* min_study_length and max_study_length.
C3_LengthBounds ==
    Planned =>
        \A i \in DOMAIN scheduled_assignments :
            /\ preferences.min_study_length <= scheduled_assignments[i].session_duration
            /\ scheduled_assignments[i].session_duration <= preferences.max_study_length

\* C4: for every assignment the result does not list as unscheduled, its
\* sessions' lengths add up to its effort (to min_session when the effort is
\* below min_session).
C4_EffortConserved ==
    Planned =>
        \A i \in DOMAIN assignments :
            assignments[i].name \notin Range(unscheduled) =>
                Covered(assignments[i].name) = Needed(assignments[i])

\* C5: for every assignment with a session in the result, its session
\* numbers are exactly 1..N, each once.
C5_SessionNumbers ==
    Planned =>
        \A n \in Names :
            \A k \in 1..Len(SessionsOf(n)) :
                Cardinality({ i \in DOMAIN SessionsOf(n) :
                                SessionsOf(n)[i].session_number = k }) = 1

\* C6: when two assignments cannot both be fully scheduled in the windows'
\* capacity, the result never leaves the earlier-due one without a session
\* while the later-due one is fully scheduled.
C6_DueDatePriority ==
    Planned =>
        \A i, j \in DOMAIN assignments :
            LET a == assignments[i]
                b == assignments[j]
            IN  ~ /\ a.due_date < b.due_date
                  /\ a.name # b.name
                  /\ Needed(a) + Needed(b) > Capacity
                  /\ Len(SessionsOf(a.name)) = 0
                  /\ Covered(b.name) >= Needed(b)

\* C7: a scheduling call that follows a scheduling call with the same
\* assignments, time windows and preferences produces the same session list.
C7_Deterministic ==
    [][ ( /\ Planned
          /\ Planned'
          /\ assignments' = assignments
          /\ time_slots' = time_slots
          /\ preferences' = preferences )
        => scheduled_assignments' = scheduled_assignments ]_vars

\* C8: an assignment whose effort is below min_session and that the result
\* schedules has exactly one session, of length min_session.
C8_FloorSession ==
    Planned =>
        \A i \in DOMAIN assignments :
            LET a == assignments[i]
            IN  ( /\ a.expected_completion_time < preferences.min_study_length
                  /\ Len(SessionsOf(a.name)) > 0 ) =>
                    /\ Len(SessionsOf(a.name)) = 1
                    /\ SessionsOf(a.name)[1].session_duration = preferences.min_study_length

C10_EmptyPlan ==
    lastOp = "schedule_assignments:no_assignments" =>
        /\ scheduled_assignments = <<>>
        /\ unscheduled = <<>>

----------------------------------------------------------------------------
(* No time slots *)

\* C11 (as stated): when schedule_assignments finds assignments but no time
\* slots, there are no sessions afterwards and every assignment is reported
\* as unscheduled.
C11_AllReportedUnscheduled ==
    lastOp = "schedule_assignments:no_time_slots" =>
        /\ scheduled_assignments = <<>>
        /\ Range(unscheduled) = { a.name : a \in Range(assignments) }

\* C11 (amended): when schedule_assignments finds assignments but no time
\* slots, it shows the "No Time Slots" warning and names no assignment; there
\* are no sessions afterwards, because the session list is never non-empty
\* while time_slots is empty.
C11_NoTimeSlotsWarning ==
    /\ time_slots = <<>> => scheduled_assignments = <<>>
    /\ lastOp = "schedule_assignments:no_time_slots" =>
          /\ assignments # <<>>
          /\ time_slots = <<>>
          /\ messageBox = "No Time Slots"
          /\ unscheduled = <<>>

\* the warning shown with two assignments waiting, no slot and no session
C11_Witness ==
    /\ lastOp = "schedule_assignments:no_time_slots"
    /\ Len(assignments) >= 2
    /\ data_file # <<>>
    /\ scheduled_assignments = <<>>

----------------------------------------------------------------------------
(* Validation of what the dialogs return *)

\* C12: preferences with a non-positive minimum or maximum study length, or
\* with the minimum above the maximum, never are the preferences of a
\* scheduling call that produced sessions.
C12_InvalidPreferencesRejected ==
    (Planned /\ scheduled_assignments # <<>>) =>
        /\ preferences.min_study_length > 0
        /\ preferences.max_study_length > 0
        /\ preferences.min_study_length <= preferences.max_study_length

\* C13: no assignment with a non-positive expected_completion_time is among
\* the assignments of a scheduling call that produced sessions.
C13_NonPositiveEffortRejected ==
    (Planned /\ scheduled_assignments # <<>>) =>
        \A i \in DOMAIN assignments : assignments[i].expected_completion_time > 0

----------------------------------------------------------------------------
(* Frame conditions *)

\* C14: a step in which schedule_assignments ends in its error path leaves
\* scheduled_assignments, assignments, time_slots and preferences as they were.
C14_FailureLeavesState ==
    [][lastOp' = "schedule_assignments:error" =>
          UNCHANGED <<scheduled_assignments, assignments, time_slots, preferences>>]_vars

\* the error path taken while a plan of an earlier call is on the calendar
C14_Witness ==
    /\ lastOp = "schedule_assignments:error"
    /\ scheduled_assignments # <<>>
    /\ assignments # <<>>

C16_UniqueNames ==
    \A i, j \in DOMAIN assignments :
        assignments[i].name = assignments[j].name => i = j

----------------------------------------------------------------------------
(* Saving and loading *)

\* C17: every session of scheduled_assignments comes back from
\* deserialize_scheduled_assignment(serialize_scheduled_assignment(s)) with
\* the same name, due date, effort, start time, session duration and session
\* number.
C17_RoundTrip ==
    \A i \in DOMAIN scheduled_assignments :
        deserialize_scheduled_assignment(
            serialize_scheduled_assignment(scheduled_assignments[i]))
          = scheduled_assignments[i]

\* a session that the answer gave in UTC ("...Z") is on the list and in the file
C17_Witness ==
    /\ data_file # <<>>
    /\ \E i \in DOMAIN scheduled_assignments :
          /\ scheduled_assignments[i].assigned_date.t = 30
          /\ scheduled_assignments[i].session_number = 1
          /\ i \in DOMAIN data_file[1].scheduled_assignments
          /\ data_file[1].scheduled_assignments[i]
                = serialize_scheduled_assignment(scheduled_assignments[i])

\* C18: in every step (add_time_slot, a handler's save_data, closing and
\* starting again with load_data) each time slot that stays in time_slots
\* keeps its id, and afterwards no two time slots share an id.
C18_StableUniqueIds ==
    [][/\ \A i \in DOMAIN time_slots \cap DOMAIN time_slots' :
             time_slots'[i].id = time_slots[i].id
       /\ \A i, j \in DOMAIN time_slots' :
             time_slots'[i].id = time_slots'[j].id => i = j]_vars

\* two slots whose ids are not in the order of their positions, both written
\* to the file under their ids
C18_Witness ==
    /\ Len(time_slots) >= 2
    /\ time_slots[1].id > time_slots[2].id
    /\ data_file # <<>>
    /\ Len(data_file[1].time_slots) = Len(time_slots)
    /\ \A i \in DOMAIN time_slots :
          UuidOf(data_file[1].time_slots[i].id) = time_slots[i].id

----------------------------------------------------------------------------
(* The callbacks of the calendar and of the assignment list *)

\* C19: after "Delete Time Slot" ran for a slot, that slot is no longer in
\* time_slots and the assignments list is as it was.
C19_DeleteTimeSlotRemoves ==
    [][\A k \in DOMAIN time_slots :
          on_delete_slot(k) =>
              /\ time_slots[k] \notin Range(time_slots')
              /\ assignments' = assignments]_vars

\* C20: after every accepted edit of a row of the assignment list, the
\* assignments list holds the updated assignment at the position of the
\* edited one, and every session that carried its name carries the updated
\* name, due date and effort.
C20_EditFindsAndReplaces ==
    [][\A k \in DOMAIN listItems, in \in AssignmentInputs :
          edit_assignment_on(k, in) =>
              /\ \E i \in DOMAIN assignments :
                    /\ assignments[i].id = listItems[k].id
                    /\ assignments'[i].name = in.name
                    /\ assignments'[i].due_date = in.due_date
                    /\ assignments'[i].expected_completion_time
                          = in.expected_completion_time
              /\ \A j \in DOMAIN scheduled_assignments :
                    scheduled_assignments[j].name = listItems[k].name =>
                        /\ scheduled_assignments'[j].name = in.name
                        /\ scheduled_assignments'[j].due_date = in.due_date
                        /\ scheduled_assignments'[j].expected_completion_time
                              = in.expected_completion_time]_vars

----------------------------------------------------------------------------
(* Clearing and deleting *)

\* C21: when the user answers No to a confirmation dialog of
\* clear_time_slots, time_slots and scheduled_assignments are as they were
\* and the state in memory is what save_data last wrote.
C21_DeclinedClearChangesNothing ==
    [][clear_time_slots_declined =>
          /\ time_slots' = time_slots
          /\ scheduled_assignments' = scheduled_assignments
          /\ data_file' = save_data(assignments', time_slots', scheduled_assignments',
                                    preferences')]_vars

\* C22: every session has the name of some assignment of the list.
C22_NoOrphanSessions ==
    \A j \in DOMAIN scheduled_assignments :
        \E i \in DOMAIN assignments :
            assignments[i].name = scheduled_assignments[j].name

\* C23: delete_assignment(a) keeps every other assignment, in order, keeps
\* all sessions of every other assignment that had some, and leaves
\* time_slots and preferences alone.
C23_DeleteRemovesOnlyItsOwn ==
    [][\A k \in DOMAIN assignments :
          delete_assignment_on(k) =>
              /\ Len(assignments') = Len(assignments) - 1
              /\ \A i \in DOMAIN assignments' :
                    LET before == assignments[IF i < k THEN i ELSE i + 1]
                    IN  /\ assignments'[i].name = before.name
                        /\ assignments'[i].due_date = before.due_date
                        /\ assignments'[i].expected_completion_time
                              = before.expected_completion_time
              /\ \A i \in DOMAIN assignments \ {k} :
                    SelectSeq(scheduled_assignments',
                              LAMBDA sa : sa.name = assignments[i].name)
                      = SelectSeq(scheduled_assignments,
                                  LAMBDA sa : sa.name = assignments[i].name)
              /\ time_slots' = time_slots
              /\ preferences' = preferences]_vars

----------------------------------------------------------------------------
(* The warning after a scheduling call *)

\* C25: after a scheduling call that ran to its end, the "Not All
\* Assignments Scheduled" warning is on screen if and only if some assignment
\* has no session in the result, and it lists exactly those assignments.
C25_WarningIffSessionless ==
    Planned =>
        LET sessionless ==
                { assignments[i].name : i \in
                    { k \in DOMAIN assignments :
                        \A m \in DOMAIN scheduled_assignments :
                            scheduled_assignments[m].name # assignments[k].name } }
        IN  /\ (messageBox = "Not All Assignments Scheduled") <=> (sessionless # {})
            /\ Range(unscheduled) = sessionless

----------------------------------------------------------------------------
(* create_scheduled_assignments as a function *)

\* C24: for every answer and the assignments of the list, what
\* create_scheduled_assignments returns has, in the order of the answer, one
\* element per session of each item whose assignment_name is the name of an
\* assignment, and nothing for the other items; each element has the name of
\* its item, due date and effort of an assignment of that name, and start,
\* duration and number of its session.
C24_OnePerSessionOfKnownItems ==
    \A response \in Responses :
        LET result == create_scheduled_assignments(response, assignments)
            known(i) == \E a \in Range(assignments) :
                           a.name = response[i].assignment_name
            count(i) == IF known(i) THEN Len(response[i].sessions) ELSE 0
            offset(i) == SumSeq([m \in 1..(i - 1) |-> count(m)])
        IN  /\ Len(result) = SumSeq([i \in DOMAIN response |-> count(i)])
            /\ \A i \in DOMAIN response :
                  known(i) =>
                    \A j \in DOMAIN response[i].sessions :
                        LET sa == result[offset(i) + j]
                            session == response[i].sessions[j]
                        IN  /\ sa.name = response[i].assignment_name
                            /\ \E a \in Range(assignments) :
                                  /\ a.name = sa.name
                                  /\ a.due_date = sa.due_date
                                  /\ a.expected_completion_time
                                        = sa.expected_completion_time
                            /\ sa.assigned_date.t = session.start_time.t
                            /\ sa.assigned_date.tzinfo
                                  = (IF session.start_time.suffix = "" THEN "none" ELSE "utc")
                            /\ sa.session_duration = session.duration
                            /\ sa.session_number = session.session_number

\* sessions were created for a name that two assignments of different effort
\* share, while the other name of the answers has no assignment
C24_Witness ==
    /\ Planned
    /\ scheduled_assignments # <<>>
    /\ \E i, j \in DOMAIN assignments :
          /\ assignments[i].name = assignments[j].name
          /\ assignments[i].expected_completion_time
                # assignments[j].expected_completion_time
    /\ \E n \in Names : \A i \in DOMAIN assignments : assignments[i].name # n

----------------------------------------------------------------------------
(* reset_schedule *)

\* C26: a step of reset_schedule leaves assignments, time_slots and
\* preferences as they were; when the "Confirm Reset" question was shown, the
\* session list is empty afterwards (Yes) or it and the file are as they were
\* (No); when nothing was scheduled, nothing changes.
C26_ResetKeepsAssignments ==
    [][/\ messageBox' = "Confirm Reset" =>
             /\ scheduled_assignments # <<>>
             /\ UNCHANGED <<assignments, time_slots, preferences>>
             /\ \/ scheduled_assignments' = <<>>
                \/ UNCHANGED <<scheduled_assignments, data_file>>
       /\ reset_schedule =>
             /\ scheduled_assignments' = <<>>
             /\ data_file'[1].scheduled_assignments = <<>>
       /\ reset_schedule_declined => scheduled_assignments' = scheduled_assignments
       /\ reset_schedule_nothing =>
             UNCHANGED <<assignments, time_slots, scheduled_assignments, preferences,
                         data_file>>]_vars

\* the schedule was reset: the question was shown, the sessions are gone from
\* the list and from the file, the assignments and time slots are there
C26_Witness ==
    /\ messageBox = "Confirm Reset"
    /\ scheduled_assignments = <<>>
    /\ Len(assignments) >= 2
    /\ time_slots # <<>>
    /\ data_file # <<>>
    /\ data_file[1].scheduled_assignments = <<>>
    /\ Len(data_file[1].assignments) = Len(assignments)

----------------------------------------------------------------------------
(* load_data *)

\* C27: when load_data fails, assignments, time_slots, scheduled_assignments
\* and preferences have the values they had before the call (load_data is
\* called by MainWindow.__init__ only: empty lists and the default
\* preferences).
C27_LoadAllOrNothing ==
    [][lastOp' = "load_data:error" =>
          /\ assignments' = <<>>
          /\ time_slots' = <<>>
          /\ scheduled_assignments' = <<>>
          /\ preferences' = DefaultPreferences]_vars

====
